---- MODULE Spec2Model ----
(***************************************************************************)
(* Model of scylladb-migrate (src/src/main.rs, src/src/db.rs).             *)
(*                                                                         *)
(* The state is the set of migration directories under dir_path, the       *)
(* ledger table scylladb_migrate_ks.migrations and, for every engine       *)
(* instance, the position inside `up` together with its locals.            *)
(* Directories appear through `generate`; nothing in the program removes   *)
(* one.  The contents of the scripts, the clock and the target store are   *)
(* the environment: what read_to_string, Utc::now and query_unpaged return *)
(* is drawn from small sets at the step that performs the call.            *)
(* Variables marked "history" record what a command did; no guard reads    *)
(* them.                                                                   *)
(*                                                                         *)
(* Spec      one engine, every command, from the empty root and table.     *)
(* SpecFair  Spec with every awaited call of a pass returning.             *)
(* SpecExec  one engine, one migration whose script is any short text.     *)
(* SpecFrame one engine running passes from any root and any table.        *)
(* SpecConc  two engines running passes on one migration and one table.    *)
(***************************************************************************)
EXTENDS Integers, Sequences, FiniteSets, TLC

(* ------------------------------ bounds --------------------------------- *)
NumIds == 3
MaxClock == 1
MaxLen == 5

Engines == {1, 2}
Solo == {1}

(* ------------------------ migration identifiers ------------------------ *)
\* Directory names are strings; they are modelled as sequences of digits so
\* that String's Ord (lexicographic) is computed, not assumed:
\* "1" < "10" < "2" < "20" < ...
IdOf(i) == IF i % 2 = 1 THEN <<(i + 1) \div 2>> ELSE <<i \div 2, 0>>

Ids == {IdOf(i) : i \in 1..NumIds}

\* what Utc::now() can return
Times == 0..MaxClock

StrLess(a, b) ==
    \E k \in 1..(Len(a) + 1) :
        /\ \A i \in 1..(k - 1) : i <= Len(b) /\ a[i] = b[i]
        /\ \/ k = Len(a) + 1 /\ Len(b) >= k
           \/ k <= Len(a) /\ k <= Len(b) /\ a[k] < b[k]

StrLeq(a, b) == a = b \/ StrLess(a, b)

Contains(v, x) == \E i \in 1..Len(v) : v[i] = x

Elems(v) == {v[i] : i \in 1..Len(v)}

Insert(x, s) ==
    LET k == Cardinality({i \in 1..Len(s) : StrLeq(s[i], x)})
    IN  SubSeq(s, 1, k) \o <<x>> \o SubSeq(s, k + 1, Len(s))

RECURSIVE InsertionSort(_)
InsertionSort(v) ==
    IF Len(v) = 0 THEN v
    ELSE Insert(v[Len(v)], InsertionSort(SubSeq(v, 1, Len(v) - 1)))

sort_unsorted(v) == v

\* subdirectories.sort()
sort(v) == InsertionSort(v)

(* ------------------------------ catalog -------------------------------- *)
\* IdOf is increasing for String's order, so this is ORDER BY id.
IdsAscending == [i \in 1..NumIds |-> IdOf(i)]

Reverse(v) == [i \in 1..Len(v) |-> v[Len(v) + 1 - i]]

\* What read_dir yields when the root holds the directories `present`:
\* distinct entry names, each a directory or a plain file.  The order of the
\* entries is platform-dependent; the model offers ascending and descending
\* name order, and at most one plain file beside the directories.
ReadDirs(present) ==
    UNION {{[names |-> l, dirs |-> present] :
                l \in {SelectSeq(IdsAscending, LAMBDA id : id \in S),
                       Reverse(SelectSeq(IdsAscending, LAMBDA id : id \in S))}} :
              S \in {present} \cup {present \cup {f} : f \in Ids \ present}}

is_dir(rd, name) == name \in rd.dirs

subdirectories(rd) ==
    sort(SelectSeq(rd.names, LAMBDA name : is_dir(rd, name)))

(* ------------------------------- ledger -------------------------------- *)
\* The program selects id and status only; run_at is written and never
\* read, so a row is its status, and the run_at each upsert carried is kept
\* in the history of the pass (outcomes).
NoRow == "absent"

status_always_success(success) == "success"

\* let status = if success { "success" } else { "failed" };
status_of(success) == IF success THEN "success" ELSE "failed"

run_at_resampled(now_of_pass, now_at_write) == now_at_write

\* the `now` bound by `let now = Utc::now()` before the loop is the value
\* every save_migration of the pass receives
run_at(now_of_pass, now_at_write) == now_of_pass

save_migration_from_id_on(table, migration, success, at) ==
    [id \in Ids |-> IF StrLeq(migration, id) THEN status_of(success)
                    ELSE table[id]]

save_migration_whole_partition(table, migration, success, at) ==
    [id \in Ids |-> IF id = migration \/ table[id] # NoRow
                    THEN status_of(success) ELSE table[id]]

save_migration_unless_applied(table, migration, success, at) ==
    IF table[migration] = "success" THEN table
    ELSE [table EXCEPT ![migration] = status_of(success)]

save_migration(table, migration, success, at) ==
    [table EXCEPT ![migration] = status_of(success)]

is_applied_any_row(row) == row # NoRow

\* if r.status == "success" { return Some(r.id); }
is_applied(row) == row = "success"

\* rows of the partition in ORDER BY id
Rows(table) == SelectSeq(IdsAscending, LAMBDA id : table[id] # NoRow)

db_migrations(table) ==
    SelectSeq(Rows(table), LAMBDA id : is_applied(table[id]))

ListAppliedIds(table) == Elems(db_migrations(table))

is_pending_always(db, entry) == TRUE

\* .filter(|entry| !db_migrations.contains(entry))
is_pending(db, entry) == ~Contains(db, entry)

migrations_to_apply(local, db) ==
    SelectSeq(local, LAMBDA entry : is_pending(db, entry))

(* --------------------------- statement executor ------------------------ *)
NoFile == <<"<missing>">>

\* up.cql contents the environment offers: the empty file that `generate`
\* creates, one statement, and two statements on two lines.
ScriptTexts ==
    { <<>>,
      <<"q", ";">>,
      <<"q", ";", "\n", "r", ";">> }

Files == ScriptTexts \cup {NoFile}

\* the characters of a script that matter to apply_migration: a letter of a
\* statement, the separator, and the two kinds of whitespace
Chars == {"q", ";", "\n", " "}

\* every script text of at most MaxLen characters
Texts == UNION {[1..n -> Chars] : n \in 0..MaxLen}

replace(text, from, to) ==
    [i \in 1..Len(text) |-> IF text[i] = from THEN to ELSE text[i]]

RECURSIVE split(_, _)
split(text, sep) ==
    IF \A i \in 1..Len(text) : text[i] # sep
    THEN <<text>>
    ELSE LET k == CHOOSE i \in 1..Len(text) :
                      text[i] = sep /\ \A j \in 1..(i - 1) : text[j] # sep
         IN  <<SubSeq(text, 1, k - 1)>>
                 \o split(SubSeq(text, k + 1, Len(text)), sep)

keeps_every_fragment(q) == TRUE

\* .filter(|q| !q.is_empty())
is_statement(q) == q # <<>>

queries_of(text) ==
    SelectSeq(split(replace(text, "\n", " "), ";"), is_statement)

ignores_error(r) == FALSE

\* the `?` after session.query_unpaged(query, &[]).await
propagates(r) == r # "ok"

read_missing_as_empty(file) == "ok"

\* file_contents(migration_path)?
file_contents(file) == IF file = NoFile THEN "io_error" ELSE "ok"

ignores_write_error(written) == FALSE

\* the `?` after save_migration(...).await
write_failed(written) == ~written

stays_on_migration(todo_) == todo_

\* the for loop moves to the next element of migrations_to_apply
next_migration(todo_) == Tail(todo_)

swallowed(resp) == "ok"

\* `return resp`: the error of apply_migration is what `up` returns
returned(resp) == resp

never_abort(resp) == FALSE

\* if !resp.is_ok() { return resp }
returns_early(resp) == resp # "ok"

(* ------------------------------- state --------------------------------- *)
VARIABLES
    dirs,        \* the migration directories under dir_path
    ledger,      \* the migrations table as the program reads it: id -> status
    pc,          \* per engine: "idle", "apply", "query", "save"
    todo,        \* per engine: migrations_to_apply not yet finished
    now,         \* per engine: the pass's `now`
    resp,        \* per engine: result of apply_migration
    queries,     \* per engine: statements of the script still to send
    cmd,         \* history: last command of the engine
    result,      \* history: what the last command returned
    output,      \* history: what the last command printed last
    catalog0,    \* history: the directory entries read_dir gave the pass
    pending0,    \* history: migrations_to_apply at the start of the pass
    ledger0,     \* history: the table at the start of the command
    attempted,   \* history: ids handed to apply_migration in this pass
    outcomes,    \* history: per finished attempt: id, resp, file missing,
                 \*          upsert completed, run_at it carried
    sent,        \* history: statements sent by the current apply_migration
    missing,     \* history: the script of the current migration was missing
    script,      \* history: the text read for the current migration
    writer       \* history: id -> resp of the attempt that wrote its row

vars == <<dirs, ledger, pc, todo, now, resp, queries, cmd, result, output,
          catalog0, pending0, ledger0, attempted, outcomes, sent, missing,
          script, writer>>

\* no engine has run a command
NoCommandYet ==
    /\ pc = [p \in Engines |-> "idle"]
    /\ todo = [p \in Engines |-> <<>>]
    /\ now = [p \in Engines |-> 0]
    /\ resp = [p \in Engines |-> "ok"]
    /\ queries = [p \in Engines |-> <<>>]
    /\ cmd = [p \in Engines |-> "none"]
    /\ result = [p \in Engines |-> "none"]
    /\ output = [p \in Engines |-> "none"]
    /\ catalog0 = [p \in Engines |-> {}]
    /\ pending0 = [p \in Engines |-> <<>>]
    /\ ledger0 = [p \in Engines |-> ledger]
    /\ attempted = [p \in Engines |-> <<>>]
    /\ outcomes = [p \in Engines |-> <<>>]
    /\ sent = [p \in Engines |-> <<>>]
    /\ missing = [p \in Engines |-> FALSE]
    /\ script = [p \in Engines |-> <<>>]

\* no engine has run a command and the table is empty
Fresh ==
    /\ ledger = [id \in Ids |-> NoRow]
    /\ writer = [id \in Ids |-> "none"]
    /\ NoCommandYet

Init == dirs = {} /\ Fresh

(* ------------------------------ actions -------------------------------- *)
waits_for_the_others(p) == \A q \in Engines : pc[q] = "idle"

\* A command can be started whenever the engine's previous one has
\* returned: main acquires nothing before it dispatches.
may_begin(p) == pc[p] = "idle"

\* A command of engine p begins: what the previous one left is forgotten.
Begins(p, command) ==
    /\ may_begin(p)
    /\ cmd' = [cmd EXCEPT ![p] = command]
    /\ ledger0' = [ledger0 EXCEPT ![p] = ledger]
    /\ attempted' = [attempted EXCEPT ![p] = <<>>]
    /\ outcomes' = [outcomes EXCEPT ![p] = <<>>]
    /\ sent' = [sent EXCEPT ![p] = <<>>]
    /\ missing' = [missing EXCEPT ![p] = FALSE]
    /\ script' = [script EXCEPT ![p] = <<>>]

\* `up` fails in session(), subdirectories() or db_migrations(): the `?`
\* returns before anything is computed.
UpFailsToStart(p) ==
    /\ Begins(p, "up")
    /\ result' = [result EXCEPT ![p] = "startup_error"]
    /\ output' = [output EXCEPT ![p] = "none"]
    /\ catalog0' = [catalog0 EXCEPT ![p] = {}]
    /\ pending0' = [pending0 EXCEPT ![p] = <<>>]
    /\ UNCHANGED <<dirs, ledger, pc, todo, now, resp, queries, writer>>

\* `up` from its entry to the head of the for loop: both reads, the filter
\* and `now`.
UpStart(p) ==
    /\ Begins(p, "up")
    /\ \E rd \in ReadDirs(dirs) :
        LET local_migrations == subdirectories(rd)
            db == db_migrations(ledger)
            to_apply == migrations_to_apply(local_migrations, db)
        IN  /\ todo' = [todo EXCEPT ![p] = to_apply]
            /\ pc' = [pc EXCEPT ![p] =
                         IF to_apply = <<>> THEN "idle" ELSE "apply"]
            /\ result' = [result EXCEPT ![p] =
                         IF to_apply = <<>> THEN "ok" ELSE "running"]
            /\ catalog0' = [catalog0 EXCEPT ![p] = rd.dirs]
            /\ pending0' = [pending0 EXCEPT ![p] = to_apply]
    /\ \E t \in Times : now' = [now EXCEPT ![p] = t]
    /\ output' = [output EXCEPT ![p] = "migrations to apply"]
    /\ resp' = [resp EXCEPT ![p] = "ok"]
    /\ queries' = [queries EXCEPT ![p] = <<>>]
    /\ UNCHANGED <<dirs, ledger, writer>>

\* apply_migration up to its query loop: read the script, split it.  The
\* script is one of `files`.
apply_migration(p, files) ==
    /\ pc[p] = "apply"
    /\ attempted' = [attempted EXCEPT ![p] = Append(@, Head(todo[p]))]
    /\ sent' = [sent EXCEPT ![p] = <<>>]
    /\ \E file \in files :
        /\ missing' = [missing EXCEPT ![p] = (file = NoFile)]
        /\ script' = [script EXCEPT ![p] = IF file = NoFile THEN <<>> ELSE file]
        /\ IF file_contents(file) # "ok"
           THEN /\ resp' = [resp EXCEPT ![p] = file_contents(file)]
                /\ queries' = [queries EXCEPT ![p] = <<>>]
                /\ pc' = [pc EXCEPT ![p] = "save"]
                /\ UNCHANGED output
           ELSE LET qs == IF file = NoFile THEN <<>> ELSE queries_of(file)
                IN  /\ queries' = [queries EXCEPT ![p] = qs]
                    /\ resp' = [resp EXCEPT ![p] = "ok"]
                    /\ pc' = [pc EXCEPT ![p] =
                                 IF qs = <<>> THEN "save" ELSE "query"]
                    /\ output' = [output EXCEPT ![p] =
                                 IF qs = <<>> THEN "migration applied"
                                 ELSE "applying migration"]
    /\ UNCHANGED <<dirs, ledger, todo, now, cmd, result, catalog0, pending0,
                   ledger0, outcomes, writer>>

ApplyMigration(p) == apply_migration(p, Files)

\* one session.query_unpaged(query, &[]).await? of the loop
Query(p) ==
    /\ pc[p] = "query"
    /\ \E ok \in BOOLEAN :
        LET r == IF ok THEN "ok" ELSE "stmt_error"
        IN  IF propagates(r)
            THEN /\ resp' = [resp EXCEPT ![p] = r]
                 /\ pc' = [pc EXCEPT ![p] = "save"]
                 /\ UNCHANGED <<sent, queries, output>>
            ELSE /\ sent' = [sent EXCEPT ![p] =
                              IF ok THEN Append(@, Head(queries[p])) ELSE @]
                 /\ queries' = [queries EXCEPT ![p] = Tail(@)]
                 /\ pc' = [pc EXCEPT ![p] =
                              IF Tail(queries[p]) = <<>> THEN "save"
                              ELSE "query"]
                 /\ output' = [output EXCEPT ![p] =
                              IF Tail(queries[p]) = <<>>
                              THEN "migration applied" ELSE @]
                 /\ UNCHANGED resp
    /\ UNCHANGED <<dirs, ledger, todo, now, cmd, result, catalog0, pending0,
                   ledger0, attempted, outcomes, missing, script, writer>>

\* save_migration(...).await? and the rest of the loop body; `t` is the
\* time at which the write is made, no earlier than the pass's `now`
SaveMigration(p) ==
    /\ pc[p] = "save"
    /\ \E written \in BOOLEAN : \E t \in Times :
        /\ t >= now[p]
        /\ outcomes' = [outcomes EXCEPT ![p] =
                           Append(@, [id |-> Head(todo[p]), resp |-> resp[p],
                                      missing |-> missing[p],
                                      written |-> written,
                                      run_at |-> run_at(now[p], t)])]
        /\ IF written
           THEN /\ ledger' = save_migration(ledger, Head(todo[p]),
                                            resp[p] = "ok",
                                            run_at(now[p], t))
                /\ writer' = [writer EXCEPT ![Head(todo[p])] = resp[p]]
           ELSE UNCHANGED <<ledger, writer>>
        /\ IF write_failed(written)
           THEN /\ result' = [result EXCEPT ![p] = "ledger_error"]
                /\ pc' = [pc EXCEPT ![p] = "idle"]
                /\ UNCHANGED todo
           ELSE IF returns_early(resp[p])
                THEN /\ result' = [result EXCEPT ![p] = returned(resp[p])]
                     /\ pc' = [pc EXCEPT ![p] = "idle"]
                     /\ UNCHANGED todo
                ELSE /\ todo' = [todo EXCEPT ![p] = next_migration(@)]
                     /\ pc' = [pc EXCEPT ![p] =
                               IF next_migration(todo[p]) = <<>> THEN "idle"
                               ELSE "apply"]
                     /\ result' = [result EXCEPT ![p] =
                               IF next_migration(todo[p]) = <<>> THEN "ok"
                               ELSE @]
    /\ UNCHANGED <<dirs, now, resp, queries, cmd, output, catalog0, pending0,
                   ledger0, attempted, sent, missing, script>>

\* what help() prints and returns; it reads neither the table nor its
\* arguments, so the report is the same whatever is applied
help_report(applied) == [result |-> "ok", output |-> "usage"]

\* main's `_ => help()` arm, which is where "down" and "down --all" land
help(p, command) ==
    /\ Begins(p, command)
    /\ result' = [result EXCEPT ![p] =
                     help_report(ListAppliedIds(ledger)).result]
    /\ output' = [output EXCEPT ![p] =
                     help_report(ListAppliedIds(ledger)).output]
    /\ catalog0' = [catalog0 EXCEPT ![p] = {}]
    /\ pending0' = [pending0 EXCEPT ![p] = <<>>]
    /\ UNCHANGED <<dirs, ledger, pc, todo, now, resp, queries, writer>>

\* `generate <name>`: create_dir of a new migration directory, then its two
\* empty scripts.  create_dir fails when the directory exists.
generate(p) ==
    /\ Begins(p, "generate")
    /\ \E id \in Ids :
        IF id \in dirs
        THEN /\ result' = [result EXCEPT ![p] = "io_error"]
             /\ UNCHANGED dirs
        ELSE /\ result' = [result EXCEPT ![p] = "ok"]
             /\ dirs' = dirs \cup {id}
    /\ output' = [output EXCEPT ![p] = "none"]
    /\ catalog0' = [catalog0 EXCEPT ![p] = {}]
    /\ pending0' = [pending0 EXCEPT ![p] = <<>>]
    /\ UNCHANGED <<ledger, pc, todo, now, resp, queries, writer>>

Down(p) == \E command \in {"down", "down --all"} : help(p, command)

Step(p) ==
    \/ generate(p)
    \/ UpFailsToStart(p)
    \/ UpStart(p)
    \/ ApplyMigration(p)
    \/ Query(p)
    \/ SaveMigration(p)
    \/ Down(p)

Next == \E p \in Solo : Step(p)

Spec == Init /\ [][Next]_vars

\* Every I/O call of a pass returns: a pass that has a step to take takes it.
EveryCallReturns ==
    \A p \in Solo :
        /\ WF_vars(ApplyMigration(p))
        /\ WF_vars(Query(p))
        /\ WF_vars(SaveMigration(p))

SpecFair == Spec /\ EveryCallReturns

(* ----------------- the statement executor on any script ----------------- *)
\* One migration directory exists; its up.cql holds any text of Texts, or is
\* missing, each time `up` reads it.
ApplyAnyScript(p) == apply_migration(p, Texts \cup {NoFile})

InitExec == dirs = {IdOf(1)} /\ Fresh

NextExec ==
    \E p \in Solo :
        \/ UpStart(p)
        \/ ApplyAnyScript(p)
        \/ Query(p)
        \/ SaveMigration(p)

SpecExec == InitExec /\ [][NextExec]_vars

(* ------------------------------ properties ----------------------------- *)
\* an `up` of engine p got past its reads, so a pass exists
Started(p) == cmd[p] = "up" /\ result[p] # "startup_error"

\* that pass has returned
Ended(p) == Started(p) /\ pc[p] = "idle"

\* C1: a pass hands to apply_migration only names that read_dir reported as
\* directories and whose row was not "success" in the table read at the
\* start of the pass, and it does so in strictly ascending name order.
C1_AttemptsPendingAscending ==
    \A p \in Engines :
        Started(p) =>
            /\ \A i \in 1..Len(attempted[p]) :
                  /\ attempted[p][i] \in catalog0[p]
                  /\ ledger0[p][attempted[p][i]] # "success"
            /\ \A i, j \in 1..Len(attempted[p]) :
                  i < j => StrLess(attempted[p][i], attempted[p][j])

C1_Witness ==
    \E p \in Engines :
        /\ Started(p)
        /\ Len(attempted[p]) >= 2
        /\ \E id \in catalog0[p] : ledger0[p][id] = "success"

C3_AppliedOnlyAfterSuccess ==
    \A id \in Ids : id \in ListAppliedIds(ledger) => writer[id] = "ok"

C3_Witness ==
    \E a, b \in Ids :
        /\ a \in ListAppliedIds(ledger)
        /\ writer[a] = "ok"
        /\ writer[b] = "stmt_error"
        /\ ledger[b] = "failed"

C5_SuccessfulPassOneTimestamp ==
    \A p \in Engines :
        (Ended(p) /\ result[p] = "ok") =>
            /\ Elems(pending0[p]) \subseteq ListAppliedIds(ledger)
            /\ Len(outcomes[p]) = Len(pending0[p])
            /\ \A i \in 1..Len(outcomes[p]) :
                  /\ outcomes[p][i].id = pending0[p][i]
                  /\ outcomes[p][i].written
                  /\ outcomes[p][i].run_at = outcomes[p][1].run_at
                  /\ outcomes[p][i].run_at = now[p]

C5_Witness ==
    \E p \in Engines :
        /\ Ended(p)
        /\ result[p] = "ok"
        /\ Len(pending0[p]) = 3
        /\ now[p] < MaxClock

\* C6: a pass that starts when every directory of the catalog is already
\* applied returns Ok at once: nothing is attempted, no statement is sent,
\* no upsert is issued and the table is what it was.
C6_ApplyIdempotent ==
    \A p \in Engines :
        (Started(p) /\ catalog0[p] \subseteq ListAppliedIds(ledger0[p])) =>
            /\ pc[p] = "idle"
            /\ result[p] = "ok"
            /\ attempted[p] = <<>>
            /\ outcomes[p] = <<>>
            /\ sent[p] = <<>>
            /\ ledger = ledger0[p]

C6_Witness ==
    \E p \in Engines :
        /\ Started(p)
        /\ Cardinality(catalog0[p]) >= 2
        /\ catalog0[p] \subseteq ListAppliedIds(ledger0[p])
        /\ result[p] = "ok"

Greatest(S) == CHOOSE x \in S : \A y \in S : StrLeq(y, x)

\* engine p ran `down` (latest) / `down --all` and it has returned
RevertedLatest(p) == cmd[p] = "down" /\ pc[p] = "idle"
RevertedAll(p) == cmd[p] = "down --all" /\ pc[p] = "idle"

\* C8: after `down` on a table whose applied set was not empty, the applied
\* set is the former one without its greatest id, that id's row is deleted
\* and every other row is what it was.
C8_RevertLatest ==
    \A p \in Engines :
        (RevertedLatest(p) /\ ListAppliedIds(ledger0[p]) # {}) =>
            LET c == Greatest(ListAppliedIds(ledger0[p]))
            IN  /\ ListAppliedIds(ledger) = ListAppliedIds(ledger0[p]) \ {c}
                /\ ledger[c] = NoRow
                /\ \A id \in Ids \ {c} : ledger[id] = ledger0[p][id]

\* C9: after `down --all`, either it returned Ok and every formerly applied
\* id is deleted, or it returned the error of the down script of some
\* formerly applied b: then the ids above b are deleted, b is still
\* "success", and the applied set is the former ids at or below b.
C9_RevertAll ==
    \A p \in Engines :
        RevertedAll(p) =>
            LET pre == ListAppliedIds(ledger0[p])
            IN  \/ /\ result[p] = "ok"
                   /\ ListAppliedIds(ledger) = {}
                   /\ \A id \in pre : ledger[id] = NoRow
                \/ /\ result[p] # "ok"
                   /\ \E b \in pre :
                        /\ ledger[b] = "success"
                        /\ \A id \in pre : StrLess(b, id) => ledger[id] = NoRow
                        /\ ListAppliedIds(ledger)
                              = {id \in pre : StrLeq(id, b)}

\* C10: `down` on an empty applied set runs no script, leaves the table as
\* it was, returns Ok, and what it returns and prints differs from what a
\* `down` on a non-empty applied set returned and printed.
C10_EmptyRevertReportedDistinctly ==
    \A p \in Engines :
        (RevertedLatest(p) /\ ListAppliedIds(ledger0[p]) = {}) =>
            /\ result[p] = "ok"
            /\ sent[p] = <<>>
            /\ ledger = ledger0[p]
            /\ \A applied \in (SUBSET Ids) \ {{}} :
                  [result |-> result[p], output |-> output[p]]
                      # help_report(applied)

(* ------------------- a pass on any table and catalog -------------------- *)
\* What the root and the table can hold when a pass begins: any set of
\* migration directories and any rows, among them rows of ids that have no
\* directory under dir_path (dir_path is an argument of each invocation
\* while the partition of the table is fixed, and a directory can be gone
\* since its row was written).  From there one engine runs passes.
InitFrame ==
    /\ dirs \in SUBSET Ids
    /\ ledger \in [Ids -> {NoRow, "success", "failed"}]
    /\ writer = [id \in Ids |->
                    IF ledger[id] = "success" THEN "ok"
                    ELSE IF ledger[id] = "failed" THEN "stmt_error"
                    ELSE "none"]
    /\ NoCommandYet

NextFrame ==
    \E p \in Solo :
        \/ UpStart(p)
        \/ ApplyMigration(p)
        \/ Query(p)
        \/ SaveMigration(p)

SpecFrame == InitFrame /\ [][NextFrame]_vars

(* ------------------- two engines on one table and catalog --------------- *)
\* One migration directory exists and both engines run `up` against it and
\* the same table, their steps interleaved in any order.
InitConc == dirs = {IdOf(1)} /\ Fresh

NextConc ==
    \E p \in Engines :
        \/ UpStart(p)
        \/ ApplyMigration(p)
        \/ Query(p)
        \/ SaveMigration(p)

SpecConc == InitConc /\ [][NextConc]_vars

(* ------------------------- C11: the splitter --------------------------- *)
\* The fragments of a text, read off its separator positions: fragment k
\* lies strictly between the (k-1)-th and the k-th separator, the ends of
\* the text counting as separators.
Cuts(text) == {0, Len(text) + 1} \cup {i \in 1..Len(text) : text[i] = ";"}

NonEmptyFragmentStarts(text) ==
    {i \in 1..Len(text) : text[i] # ";" /\ (i - 1) \in Cuts(text)}

FragmentAt(text, i) ==
    LET last == CHOOSE j \in i..Len(text) :
                    /\ (j + 1) \in Cuts(text)
                    /\ \A k \in i..j : text[k] # ";"
    IN  SubSeq(text, i, last)

\* the k-th smallest element of a set of numbers
Nth(S, k) == CHOOSE x \in S : Cardinality({y \in S : y <= x}) = k

NonEmptyFragments(text) ==
    [k \in 1..Cardinality(NonEmptyFragmentStarts(text)) |->
        FragmentAt(text, Nth(NonEmptyFragmentStarts(text), k))]

\* a fragment as it is sent: each newline is sent as a space
AsSent(fragment) ==
    [i \in 1..Len(fragment) |->
        IF fragment[i] = "\n" THEN " " ELSE fragment[i]]

TwoStatements == <<"q", ";", "\n", "q", ";">>

\* C11: the statements apply_migration sends are the non-empty fragments
\* between the ';' of the script text, in textual order (a newline inside a
\* fragment is sent as a space): at every moment of a run the statements
\* executed so far followed by those still to send are exactly these
\* fragments, and when the run returns Ok all of them were executed and
\* nothing else; no empty fragment is among them, the one after a final ';'
\* included; the script of two ';'-terminated statements on two lines makes
\* exactly two statements.
C11_RunsNonEmptyFragmentsInOrder ==
    \A p \in Engines :
        (pc[p] \in {"query", "save"} /\ ~missing[p]) =>
            LET expected == [k \in DOMAIN NonEmptyFragments(script[p]) |->
                                AsSent(NonEmptyFragments(script[p])[k])]
            IN  /\ sent[p] \o queries[p] = expected
                /\ \A k \in 1..Len(expected) : expected[k] # <<>>
                /\ (pc[p] = "save" /\ resp[p] = "ok") => sent[p] = expected
                /\ script[p] = TwoStatements => Len(expected) = 2

C11_Witness ==
    \E p \in Engines :
        /\ pc[p] = "save"
        /\ resp[p] = "ok"
        /\ script[p] = TwoStatements
        /\ sent[p] = << <<"q">>, <<" ", "q">> >>

(* --------------------- C12: whitespace-only scripts -------------------- *)
Blank(text) == \A i \in 1..Len(text) : text[i] \in {" ", "\n"}

\* C12: for a script that is empty or holds only spaces and newlines,
\* apply_migration has no statement to send, sends none and returns Ok, and
\* the upsert that follows, once completed, records "success".
C12_BlankScriptSendsNothing ==
    \A p \in Engines :
        (~missing[p] /\ Blank(script[p])) =>
            /\ pc[p] \in {"query", "save"} =>
                  /\ queries[p] = <<>>
                  /\ sent[p] = <<>>
                  /\ resp[p] = "ok"
            /\ \A i \in 1..Len(outcomes[p]) :
                  (i = Len(attempted[p]) /\ outcomes[p][i].written)
                  => ledger[outcomes[p][i].id] = "success"

(* ------------------ C13: one upsert after each executor run ------------ *)
\* apply_migration of engine p is running, or has returned with its upsert
\* still to come
Executing(p) == pc[p] = "query"
AwaitingUpsert(p) == pc[p] = "save"

\* the attempts and the upserts of a pass alternate: one upsert is issued
\* for every attempt, after its executor run and before the next begins
UpsertsFollowAttempts(p) ==
    /\ Len(attempted[p]) =
          Len(outcomes[p]) + (IF Executing(p) \/ AwaitingUpsert(p) THEN 1 ELSE 0)
    /\ \A i \in 1..Len(outcomes[p]) : outcomes[p][i].id = attempted[p][i]
    /\ \A i \in 1..Len(outcomes[p]) :
          outcomes[p][i].written =>
              ledger[attempted[p][i]] = status_of(outcomes[p][i].resp = "ok")

\* C13 as stated: one upsert per attempt, issued between the executor run of
\* the migration and that of the next one, the writes of a pass being the
\* attempts in order; and the table holds no record at all for the migration
\* whose executor run is in progress.
C13_NoRecordWhileExecuting ==
    \A p \in Solo :
        Started(p) =>
            /\ UpsertsFollowAttempts(p)
            /\ Executing(p) => ledger[Head(todo[p])] = NoRow

\* C13 amended: one upsert per attempt, issued between the executor run of
\* the migration and that of the next one, the writes of a pass being the
\* attempts in order; and while the executor run of a migration is in
\* progress or its upsert is still to come, the pass has not written its
\* row: the row is what it was when the pass started, absent or "failed"
\* from an earlier pass, never "success".
C13_OneUpsertAfterEachRun ==
    \A p \in Solo :
        Started(p) =>
            /\ UpsertsFollowAttempts(p)
            /\ (Executing(p) \/ AwaitingUpsert(p)) =>
                  /\ Head(todo[p]) = attempted[p][Len(attempted[p])]
                  /\ ledger[Head(todo[p])] = ledger0[p][Head(todo[p])]
                  /\ ledger[Head(todo[p])] \in {NoRow, "failed"}

C13_Witness ==
    \E p \in Solo :
        /\ Started(p)
        /\ Executing(p)
        /\ Len(attempted[p]) = 2
        /\ Len(outcomes[p]) = 1
        /\ outcomes[p][1].written
        /\ ledger[Head(todo[p])] = "failed"

(* --------------------- C14: what a pass returns ------------------------ *)
\* the executor failed for the i-th attempt of the pass of engine p
ExecutorFailed(p, i) == outcomes[p][i].resp \in {"stmt_error", "io_error"}

\* a pass returns Ok only if every pending migration was executed with
\* success and its upsert completed
OkOnlyIfAllDone(p) ==
    result[p] = "ok" =>
        /\ Len(outcomes[p]) = Len(pending0[p])
        /\ \A i \in 1..Len(outcomes[p]) :
              /\ outcomes[p][i].id = pending0[p][i]
              /\ outcomes[p][i].resp = "ok"
              /\ outcomes[p][i].written

\* C14 as stated: when the executor failed for a migration the pass returns
\* that executor error, the "failed" upsert having completed before; and a
\* pass returns Ok only if every pending migration was executed and recorded
\* with success.
C14_ReturnsExecutorError ==
    \A p \in Engines :
        Ended(p) =>
            /\ OkOnlyIfAllDone(p)
            /\ \A i \in 1..Len(outcomes[p]) :
                  ExecutorFailed(p, i) =>
                      /\ result[p] = outcomes[p][i].resp
                      /\ outcomes[p][i].written

\* C14 amended: when the executor failed for a migration the pass ends with
\* that attempt and never returns Ok; it returns that executor error if the
\* "failed" upsert completed, and the ledger error in place of it if the
\* upsert failed; so whenever an executor error is returned the "failed"
\* upsert has completed.  A pass returns Ok only if every pending migration
\* was executed and recorded with success.
C14_ReturnsExecutorErrorOnceRecorded ==
    \A p \in Engines :
        Ended(p) =>
            /\ OkOnlyIfAllDone(p)
            /\ \A i \in 1..Len(outcomes[p]) :
                  ExecutorFailed(p, i) =>
                      /\ i = Len(outcomes[p])
                      /\ i = Len(attempted[p])
                      /\ result[p] # "ok"
                      /\ outcomes[p][i].written =>
                            /\ result[p] = outcomes[p][i].resp
                            /\ writer[outcomes[p][i].id] = outcomes[p][i].resp
                      /\ ~outcomes[p][i].written =>
                            result[p] = "ledger_error"
            /\ result[p] \in {"stmt_error", "io_error"} =>
                  /\ outcomes[p] # <<>>
                  /\ outcomes[p][Len(outcomes[p])].resp = result[p]
                  /\ outcomes[p][Len(outcomes[p])].written

C14_Witness ==
    \E p \in Engines :
        /\ Ended(p)
        /\ Len(outcomes[p]) = 1
        /\ outcomes[p][1].resp = "stmt_error"
        /\ outcomes[p][1].written
        /\ result[p] = "stmt_error"
        /\ ledger[outcomes[p][1].id] = "failed"

(* ---------------- C15: the first failing statement ends the run -------- *)
\* C15: when a statement of a script errored, apply_migration has returned
\* that error and sends nothing more: the statements executed are the ones
\* before the failing one, they stay executed (nothing is undone, also not
\* once the pass has returned), and the failing statement and those after
\* it are not sent again; apply_migration returns Ok only when every
\* statement of the script was executed.
C15_StopsAtFirstError ==
    \A p \in Engines :
        Started(p) =>
            /\ resp[p] = "stmt_error" =>
                  /\ pc[p] \in {"save", "idle"}
                  /\ queries[p] # <<>>
                  /\ sent[p] \o queries[p] = queries_of(script[p])
                  /\ Len(sent[p]) < Len(queries_of(script[p]))
            /\ (pc[p] = "save" /\ resp[p] = "ok") =>
                  sent[p] = queries_of(script[p])

C15_Witness ==
    \E p \in Engines :
        /\ Ended(p)
        /\ resp[p] = "stmt_error"
        /\ result[p] = "stmt_error"
        /\ sent[p] = << <<"q">> >>
        /\ queries[p] = << <<" ", "r">> >>

(* -------------------- C16: no guard between two engines ---------------- *)
\* C16: nothing holds an engine back while another one is in a pass: an
\* idle engine can always start `up`, an engine inside a pass can always
\* take its next step, and the pending list of a pass is the catalog it
\* read minus the applied ids of the table it read, whatever the other
\* engine is doing.  So both engines can read the same table and execute
\* the up-script of the same migration at the same time (C16_Witness).
C16_NoGuardOnLedger ==
    \A p \in Engines :
        /\ pc[p] = "idle" => ENABLED UpStart(p)
        /\ pc[p] = "apply" => ENABLED ApplyMigration(p)
        /\ pc[p] = "query" => ENABLED Query(p)
        /\ pc[p] = "save" => ENABLED SaveMigration(p)
        /\ Started(p) =>
              Elems(pending0[p]) = catalog0[p] \ ListAppliedIds(ledger0[p])

C16_Witness ==
    /\ ledger0[1] = ledger0[2]
    /\ pending0[1] = pending0[2]
    /\ pc[1] = "query"
    /\ pc[2] = "query"
    /\ Head(todo[1]) = Head(todo[2])
    /\ sent[1] # <<>>
    /\ sent[2] # <<>>

(* ------------------- C17: each pending migration once ------------------ *)
\* the attempts of the pass are the first pending migrations, each once and
\* in order, and an attempt whose executor failed is the last one
AttemptsArePrefix(p) ==
    /\ Len(attempted[p]) <= Len(pending0[p])
    /\ \A i \in 1..Len(attempted[p]) : attempted[p][i] = pending0[p][i]
    /\ \A i, j \in 1..Len(attempted[p]) :
          i # j => attempted[p][i] # attempted[p][j]
    /\ \A i \in 1..Len(outcomes[p]) :
          outcomes[p][i].resp # "ok" => i = Len(attempted[p])

\* C17: in a pass every migration is attempted at most once, a failed one
\* is not attempted again, the number of executor runs never exceeds the
\* number of pending migrations, and, every I/O call returning, a pass that
\* is under way comes to its end.
C17_EachPendingAttemptedOnce ==
    /\ [](\A p \in Solo : Started(p) => AttemptsArePrefix(p))
    /\ \A p \in Solo : (pc[p] # "idle") ~> (pc[p] = "idle")

C17_Witness ==
    \E p \in Solo :
        /\ Ended(p)
        /\ Len(pending0[p]) = 3
        /\ Len(attempted[p]) = 2
        /\ outcomes[p][2].resp = "stmt_error"
        /\ outcomes[p][2].written
        /\ result[p] = "stmt_error"
        /\ ledger0[p][attempted[p][2]] = "failed"

(* ------------------ C18: what a pass leaves untouched ------------------ *)
\* C18: with one engine, at every moment of a pass the row of every id that
\* was not pending when the pass started is what it was then, whether the
\* id was applied or has a row and no directory; no row is deleted; so the
\* applied ids at the start of the pass are applied at every later moment
\* of it and after it.
C18_NonPendingRowsUntouched ==
    \A p \in Solo :
        Started(p) =>
            /\ \A id \in Ids :
                  ~Contains(pending0[p], id) => ledger[id] = ledger0[p][id]
            /\ \A id \in Ids : ledger0[p][id] # NoRow => ledger[id] # NoRow
            /\ ListAppliedIds(ledger0[p]) \subseteq ListAppliedIds(ledger)

C18_Witness ==
    \E p \in Solo : \E a, b, c \in Ids :
        /\ Ended(p)
        /\ a \in catalog0[p] /\ ledger0[p][a] = "success"
        /\ b \notin catalog0[p] /\ ledger0[p][b] = "failed"
        /\ Contains(pending0[p], c) /\ ledger0[p][c] = NoRow
        /\ ledger[c] = "success"
        /\ ledger[a] = "success" /\ ledger[b] = "failed"

(* ---------------- C19: the upsert fails after a good run --------------- *)
\* the pending list a pass would compute if it started now
PendingNow(rd) == migrations_to_apply(subdirectories(rd), db_migrations(ledger))

\* C19: when a pass has returned and the upsert of an attempt whose
\* executor run returned Ok did not complete, that attempt is the last of
\* the pass (no later pending migration was attempted), the pass returned
\* the ledger error, the row of the migration is what it was and the
\* migration is not applied although its statements were executed, and a
\* pass started next has it first in its pending list, so its up-script is
\* executed again.
C19_LostUpsertRunsScriptAgain ==
    \A p \in Solo :
        Ended(p) =>
            \A i \in 1..Len(outcomes[p]) :
                (outcomes[p][i].resp = "ok" /\ ~outcomes[p][i].written) =>
                    LET m == outcomes[p][i].id
                    IN  /\ i = Len(outcomes[p])
                        /\ i = Len(attempted[p])
                        /\ result[p] = "ledger_error"
                        /\ sent[p] = queries_of(script[p])
                        /\ ledger[m] = ledger0[p][m]
                        /\ m \notin ListAppliedIds(ledger)
                        /\ \A rd \in ReadDirs(dirs) :
                              /\ PendingNow(rd) # <<>>
                              /\ Head(PendingNow(rd)) = m

C19_Witness ==
    \E p \in Solo :
        /\ Ended(p)
        /\ Len(pending0[p]) >= 2
        /\ Len(outcomes[p]) = 1
        /\ outcomes[p][1].resp = "ok"
        /\ ~outcomes[p][1].written
        /\ sent[p] # <<>>
        /\ result[p] = "ledger_error"

(* ------------------ C20: the last upsert wins -------------------------- *)
\* C20: the upsert is unconditional, so with two engines the row of an id
\* is always the status of the upsert that completed last, also when it
\* replaces "success" by "failed"; an id whose row is "failed" is not
\* applied and, its directory being there, is pending for a pass that
\* starts next.  So one engine can record "success" and the other, whose
\* run of the same script failed, then make the row "failed"
\* (C20_Witness).
C20_LastUpsertWins ==
    \A id \in Ids :
        /\ ledger[id] = IF writer[id] = "none" THEN NoRow
                        ELSE status_of(writer[id] = "ok")
        /\ (ledger[id] = "failed" /\ id \in dirs) =>
              /\ id \notin ListAppliedIds(ledger)
              /\ \A rd \in ReadDirs(dirs) : Contains(PendingNow(rd), id)

C20_Witness ==
    \E p, q \in Engines : \E id \in Ids :
        /\ p # q
        /\ Ended(p) /\ Ended(q)
        /\ ledger0[p][id] = NoRow /\ ledger0[q][id] = NoRow
        /\ outcomes[q] = <<[id |-> id, resp |-> "ok", missing |-> FALSE,
                            written |-> TRUE, run_at |-> now[q]]>>
        /\ result[q] = "ok"
        /\ Len(outcomes[p]) = 1
        /\ outcomes[p][1].id = id
        /\ outcomes[p][1].resp = "stmt_error"
        /\ outcomes[p][1].written
        /\ ledger[id] = "failed"
        /\ id \notin ListAppliedIds(ledger)

TypeOK ==
    /\ \A id \in Ids : ledger[id] \in {"absent", "success", "failed"}
    /\ \A p \in Engines : now[p] \in Times
    /\ \A p \in Engines : pc[p] \in {"idle", "apply", "query", "save"}
====
